---------------------------- MODULE Spec2Model ----------------------------
(***************************************************************************)
(* A model of the price-oracle contract (src/src/lib.rs).                  *)
(*                                                                         *)
(* The contract keeps a map of assets; every asset keeps the latest report *)
(* of each reporter and its EMA states.  lib.rs holds the public methods   *)
(* (new, get_price_data, report_prices, oracle_call, oracle_on_call); the  *)
(* modules asset, ema and utils it calls into are modelled from the        *)
(* specification (spec.md, sections 3 and 4).                              *)
(*                                                                         *)
(* Conventions.                                                            *)
(*   - Option<T>: None is the empty tuple, Some(x) the one-element tuple.  *)
(*   - An AssetId (a Rust String) is a sequence of one-character strings,  *)
(*     so that str::split_once('#') is computed, not assumed.              *)
(*   - Block timestamps are counted in whole seconds.                      *)
(*   - A panic (assert!, assert_valid) ends the call; the NEAR runtime     *)
(*     discards every storage write of a failed call.                      *)
(*   - Calls run one at a time, each to completion: `last` holds the       *)
(*     outcome of the call being answered and Return hands it to the       *)
(*     caller, after which the next call or block may start.               *)
(*   - The Promise oracle_call returns is the receipt of the call it      *)
(*     makes; the runtime executes it in the next block.                   *)
(*   - Gas is counted in Tgas (Gas::ONE_TERA).                             *)
(***************************************************************************)
EXTENDS Integers, Sequences, FiniteSets, TLC

VARIABLES
    assets,                 \* Contract.assets: UnorderedMap<AssetId, VAsset>
    recency_duration_sec,   \* Contract.recency_duration_sec
    owner_id,               \* Contract.owner_id
    now,                    \* env::block_timestamp() of the current block
    last                    \* the call being answered: its name, outcome and result

vars == <<assets, recency_duration_sec, owner_id, now, last>>

----------------------------------------------------------------------------
(* Bounds of the model *)

MaxTime == 2        \* block timestamps range over 0..MaxTime
MaxBatch == 2       \* report_prices batches hold at most MaxBatch entries
MaxIds == 2         \* get_price_data id lists hold at most MaxIds ids
MaxData == 3        \* the PriceData passed to oracle_on_call holds at most MaxData entries

----------------------------------------------------------------------------
(* Option *)

None == <<>>
Some(x) == <<x>>
IsSome(o) == o # <<>>
Unwrap(o) == o[1]

Max2(x, y) == IF x >= y THEN x ELSE y

SetMin(S) == CHOOSE x \in S : \A y \in S : x <= y

RECURSIVE Pow10(_)
Pow10(n) == IF n = 0 THEN 1 ELSE 10 * Pow10(n - 1)

\* All sequences over S of length lo..hi
SeqsUpTo(S, lo, hi) == UNION { [1..n -> S] : n \in lo..hi }

----------------------------------------------------------------------------
(* Accounts, asset ids, prices: the inputs the model draws from *)

Oracles == {"o1", "o2", "o3"}
OwnerAccount == "owner"

IdA == <<"a">>
IdB == <<"b">>
IdA1 == <<"a", "#", "1">>

\* the exponent bound of a valid Price
MAX_VALID_DECIMALS == 1

Price(m, d) == [multiplier |-> m, decimals |-> d]

ValidPrices == {Price(1, 0), Price(3, 0)}
InvalidPrices == {Price(0, 0), Price(1, MAX_VALID_DECIMALS + 1)}
PriceInputs == ValidPrices \cup InvalidPrices

ReportIds == {IdA}
QueryIds == {IdA, IdB, IdA1}

\* the values of recency_duration_sec the contract is constructed with
RecencyChoices == {0, 1}

AssetPrice(id, p) == [asset_id |-> id, price |-> p]

Batches(ids, prices, maxlen) ==
    SeqsUpTo({AssetPrice(id, p) : id \in ids, p \in prices}, 0, maxlen)

QueryArgs(ids, maxlen) ==
    {None} \cup {Some(l) : l \in SeqsUpTo(ids, 0, maxlen)}

----------------------------------------------------------------------------
(* Price (utils): validity, numeric order, mean *)

\* Price::assert_valid: the mantissa is nonzero and the exponent within bound
price_is_valid(p) == p.multiplier > 0 /\ p.decimals <= MAX_VALID_DECIMALS

\* the mantissa of p at d decimals (d >= p.decimals)
Normalized(p, d) == p.multiplier * Pow10(d - p.decimals)

\* numeric order: mantissas compared at a common exponent
price_le(p, q) ==
    LET d == Max2(p.decimals, q.decimals)
    IN  Normalized(p, d) <= Normalized(q, d)

\* mean of two prices at their common exponent, truncated
price_mean(p, q) ==
    LET d == Max2(p.decimals, q.decimals)
    IN  Price((Normalized(p, d) + Normalized(q, d)) \div 2, d)

----------------------------------------------------------------------------
(* Asset, Report, EmaState (asset, ema) *)

Report(oracle_id, timestamp, price) ==
    [oracle_id |-> oracle_id, timestamp |-> timestamp, price |-> price]

EmaState(window, price, last_update) ==
    [window |-> window, price |-> price, last_update |-> last_update]

\* Asset::new(): no report, no EMA state
AssetNew == [reports |-> {}, emas |-> {}]

\* the variant of ema_update that weighs the report by the window and the
\* smoothed value by the time passed
ema_update_swapped(e, report) ==
    IF e.price = None
    THEN EmaState(e.window, Some(report.price), report.timestamp)
    ELSE LET old == Unwrap(e.price)
             dt == Max2(0, report.timestamp - e.last_update)
             d == Max2(old.decimals, report.price.decimals)
             blended == (Normalized(old, d) * dt
                          + Normalized(report.price, d) * e.window) \div (dt + e.window)
         IN  EmaState(e.window, Some(Price(blended, d)),
                      Max2(e.last_update, report.timestamp))

\* the variant of ema_update that takes the report's timestamp as the
\* state's last_update
ema_update_latest(e, report) ==
    IF e.price = None
    THEN EmaState(e.window, Some(report.price), report.timestamp)
    ELSE LET old == Unwrap(e.price)
             dt == Max2(0, report.timestamp - e.last_update)
             d == Max2(old.decimals, report.price.decimals)
             blended == (Normalized(old, d) * e.window
                          + Normalized(report.price, d) * dt) \div (dt + e.window)
         IN  EmaState(e.window, Some(Price(blended, d)), report.timestamp)

\* EMA Tracker update of one state with one accepted report
ema_update(e, report) ==
    IF e.price = None
    THEN EmaState(e.window, Some(report.price), report.timestamp)
    ELSE LET old == Unwrap(e.price)
             dt == Max2(0, report.timestamp - e.last_update)
             d == Max2(old.decimals, report.price.decimals)
             blended == (Normalized(old, d) * e.window
                          + Normalized(report.price, d) * dt) \div (dt + e.window)
         IN  EmaState(e.window, Some(Price(blended, d)),
                      Max2(e.last_update, report.timestamp))

\* the variant of add_report that keeps the reporter's earlier report
add_report_accumulate(asset, report) ==
    [reports |-> asset.reports \cup {report},
     emas |-> {ema_update(e, report) : e \in asset.emas}]

\* Asset::add_report: the reporter's report replaces its earlier one, and
\* every EMA state of the asset absorbs the report
add_report(asset, report) ==
    [reports |-> {r \in asset.reports : r.oracle_id # report.oracle_id}
                    \cup {report},
     emas |-> {ema_update(e, report) : e \in asset.emas}]

\* the prices of a set of reports in ascending numeric order
RECURSIVE SortedPrices(_)
SortedPrices(rs) ==
    IF rs = {} THEN <<>>
    ELSE LET r == CHOOSE r \in rs : \A s \in rs : price_le(r.price, s.price)
         IN  <<r.price>> \o SortedPrices(rs \ {r})

\* Asset::median_price(): the median of the asset's reports
median_price(asset) ==
    LET s == SortedPrices(asset.reports)
        n == Len(s)
    IN  IF n = 0 THEN None
        ELSE IF n % 2 = 1 THEN Some(s[(n \div 2) + 1])
        ELSE Some(price_mean(s[n \div 2], s[(n \div 2) + 1]))

----------------------------------------------------------------------------
(* UnorderedMap<AssetId, VAsset>: entries in insertion order *)

map_keys(m) == [i \in 1..Len(m) |-> m[i].key]

map_has(m, k) == \E i \in 1..Len(m) : m[i].key = k

map_get(m, k) ==
    IF map_has(m, k)
    THEN Some(m[CHOOSE i \in 1..Len(m) : m[i].key = k].value)
    ELSE None

map_insert(m, k, v) ==
    IF map_has(m, k)
    THEN [i \in 1..Len(m) |-> IF m[i].key = k THEN [key |-> k, value |-> v] ELSE m[i]]
    ELSE Append(m, [key |-> k, value |-> v])

\* Contract::internal_get_asset over the map m
internal_get_asset(m, asset_id) == map_get(m, asset_id)

\* Contract::internal_set_asset over the map m
internal_set_asset(m, asset_id, asset) == map_insert(m, asset_id, asset)

----------------------------------------------------------------------------
(* str::split_once('#') *)

split_once(s) ==
    LET hashes == {i \in 1..Len(s) : s[i] = "#"}
    IN  IF hashes = {} THEN None
        ELSE LET i == SetMin(hashes)
             IN  Some(<<SubSeq(s, 1, i - 1), SubSeq(s, i + 1, Len(s))>>)

----------------------------------------------------------------------------
(* EMA Tracker: windows and their current value *)

Digits == <<"0", "1", "2", "3", "4", "5", "6", "7", "8", "9">>

IsDigit(c) == \E d \in 1..10 : Digits[d] = c

DigitValue(c) == (CHOOSE d \in 1..10 : Digits[d] = c) - 1

RECURSIVE DecimalValue(_)
DecimalValue(s) ==
    IF s = <<>> THEN 0
    ELSE 10 * DecimalValue(SubSeq(s, 1, Len(s) - 1)) + DigitValue(s[Len(s)])

\* the window a variant id's suffix names, if it is a decimal number
parse_window(s) ==
    IF s # <<>> /\ \A i \in 1..Len(s) : IsDigit(s[i])
    THEN Some(DecimalValue(s))
    ELSE None

\* the EMA Tracker's current value for (base, window) over the map m
ema_price(m, base, window) ==
    LET asset == internal_get_asset(m, base)
    IN  IF asset = None \/ window = None THEN None
        ELSE LET es == {e \in Unwrap(asset).emas : e.window = Unwrap(window)}
             IN  IF es = {} THEN None ELSE (CHOOSE e \in es : TRUE).price

----------------------------------------------------------------------------
(* Contract::report_prices *)

\* the variant of Committed that keeps the writes a panicked call made
CommittedPartial(before, run) == run.assets

\* the state a call that ran to `run` leaves behind: a panicked call's
\* writes are discarded, a returning call's writes are kept
Committed(before, run) == IF run.panicked THEN before ELSE run.assets

\* the variant of report_loop that starts every reported asset anew
RECURSIVE report_loop_recreating(_, _, _, _, _)
report_loop_recreating(m, prices, i, oracle_id, timestamp) ==
    IF i > Len(prices)
    THEN [assets |-> m, panicked |-> FALSE, at |-> 0]
    ELSE LET asset_id == prices[i].asset_id
             price == prices[i].price
         IN  IF ~price_is_valid(price)
             THEN [assets |-> m, panicked |-> TRUE, at |-> i]
             ELSE LET m1 == internal_set_asset(m, asset_id, AssetNew)
                      got == internal_get_asset(m1, asset_id)
                      m2 == internal_set_asset(m1, asset_id,
                                add_report(Unwrap(got),
                                           Report(oracle_id, timestamp, price)))
                  IN  report_loop_recreating(m2, prices, i + 1, oracle_id, timestamp)

\* the variant of report_loop that takes the entries from the last to the
\* first
RECURSIVE report_loop_backwards(_, _, _, _, _)
report_loop_backwards(m, prices, i, oracle_id, timestamp) ==
    IF i > Len(prices)
    THEN [assets |-> m, panicked |-> FALSE, at |-> 0]
    ELSE LET asset_id == prices[Len(prices) + 1 - i].asset_id
             price == prices[Len(prices) + 1 - i].price
         IN  IF ~price_is_valid(price)
             THEN [assets |-> m, panicked |-> TRUE, at |-> Len(prices) + 1 - i]
             ELSE LET m1 == IF internal_get_asset(m, asset_id) = None
                            THEN internal_set_asset(m, asset_id, AssetNew)
                            ELSE m
                      got == internal_get_asset(m1, asset_id)
                      m2 == internal_set_asset(m1, asset_id,
                                add_report(Unwrap(got),
                                           Report(oracle_id, timestamp, price)))
                  IN  report_loop_backwards(m2, prices, i + 1, oracle_id, timestamp)

\* the loop over the batch from entry i on, over the map m; `at` is the
\* entry whose assert_valid panicked
RECURSIVE report_loop(_, _, _, _, _)
report_loop(m, prices, i, oracle_id, timestamp) ==
    IF i > Len(prices)
    THEN [assets |-> m, panicked |-> FALSE, at |-> 0]
    ELSE LET asset_id == prices[i].asset_id
             price == prices[i].price
         IN  IF ~price_is_valid(price)
             THEN [assets |-> m, panicked |-> TRUE, at |-> i]
             ELSE LET m1 == IF internal_get_asset(m, asset_id) = None
                            THEN internal_set_asset(m, asset_id, AssetNew)
                            ELSE m
                      got == internal_get_asset(m1, asset_id)
                      m2 == IF IsSome(got)
                            THEN internal_set_asset(m1, asset_id,
                                     add_report(Unwrap(got),
                                                Report(oracle_id, timestamp, price)))
                            ELSE m1
                  IN  report_loop(m2, prices, i + 1, oracle_id, timestamp)

\* the body of report_prices called by oracle_id at block time timestamp
report_prices(m, prices, oracle_id, timestamp) ==
    IF Len(prices) = 0
    THEN [assets |-> m, panicked |-> TRUE, at |-> 0]
    ELSE report_loop(m, prices, 1, oracle_id, timestamp)

----------------------------------------------------------------------------
(* Contract::get_price_data *)

AssetOptionalPrice(asset_id, price) == [asset_id |-> asset_id, price |-> price]

\* the variant of asset_median that answers a default price for no asset
asset_median_or_default(asset) ==
    IF IsSome(asset) THEN median_price(Unwrap(asset)) ELSE Some(Price(0, 0))

\* Option::and_then(asset, |asset| asset.median_price())
asset_median(asset) == IF IsSome(asset) THEN median_price(Unwrap(asset)) ELSE None

\* the closure mapped over the requested ids, over the map m
price_of(m, asset_id) ==
    LET split == split_once(asset_id)
    IN  IF IsSome(split)
        THEN AssetOptionalPrice(asset_id,
                 asset_median(internal_get_asset(m, Unwrap(split)[1])))
        ELSE AssetOptionalPrice(asset_id,
                 asset_median(internal_get_asset(m, asset_id)))

\* the variant of get_price_data that leaves out the ids without a price
get_price_data_skipping(m, recency, timestamp, asset_ids) ==
    LET ids == IF asset_ids = None THEN map_keys(m) ELSE Unwrap(asset_ids)
        Priced(e) == IsSome(e.price)
    IN  [timestamp |-> timestamp,
         recency_duration_sec |-> recency,
         prices |-> SelectSeq([i \in 1..Len(ids) |-> price_of(m, ids[i])], Priced)]

\* get_price_data(asset_ids) of the contract with assets m and
\* recency_duration_sec recency, at block time timestamp
get_price_data(m, recency, timestamp, asset_ids) ==
    LET ids == IF asset_ids = None THEN map_keys(m) ELSE Unwrap(asset_ids)
    IN  [timestamp |-> timestamp,
         recency_duration_sec |-> recency,
         prices |-> [i \in 1..Len(ids) |-> price_of(m, ids[i])]]

----------------------------------------------------------------------------
(* Contract::oracle_call *)

NO_DEPOSIT == 0

\* Gas::ONE_TERA.0 * 10, in Tgas
GAS_FOR_PROMISE == 10

\* the account the contract is deployed at: the oracle
OracleAccount == "oracle"

\* what the runtime tells a call about itself
Env(predecessor_account_id, attached_deposit, prepaid_gas, used_gas) ==
    [predecessor_account_id |-> predecessor_account_id,
     attached_deposit |-> attached_deposit,
     prepaid_gas |-> prepaid_gas,
     used_gas |-> used_gas]

\* ext_price_receiver::oracle_on_call(sender_id, data, msg, receiver_id,
\* deposit, gas): the receipt of a call of oracle_on_call on receiver_id
Promise(sender_id, data, msg, receiver_id, deposit, gas) ==
    [receiver_id |-> receiver_id,
     method |-> "oracle_on_call",
     sender_id |-> sender_id,
     data |-> data,
     msg |-> msg,
     deposit |-> deposit,
     gas |-> gas]

\* the variant of assert_well_paid that lets every deposit pass
assert_well_paid_any(attached_deposit) == TRUE

\* assert_well_paid, i.e. assert_one_yocto: whether the call goes on
assert_well_paid(attached_deposit) == attached_deposit = 1

\* the variant of oracle_call that does not compare the remaining gas with
\* GAS_FOR_PROMISE
oracle_call_unchecked(m, recency, timestamp, env, receiver_id, asset_ids, msg) ==
    IF ~assert_well_paid(env.attached_deposit)
    THEN [panicked |-> TRUE, steps |-> <<"assert_well_paid">>, promise |-> None]
    ELSE LET sender_id == env.predecessor_account_id
             price_data == get_price_data(m, recency, timestamp, asset_ids)
             remaining_gas == env.prepaid_gas - env.used_gas
         IN  [panicked |-> FALSE,
              steps |-> <<"assert_well_paid", "get_price_data", "oracle_on_call">>,
              promise |-> Some(Promise(sender_id, price_data, msg, receiver_id,
                                       NO_DEPOSIT, remaining_gas - GAS_FOR_PROMISE))]

\* the variant of oracle_call that sends the snapshot of the stored assets
\* whatever ids were asked for
oracle_call_all_assets(m, recency, timestamp, env, receiver_id, asset_ids, msg) ==
    IF ~assert_well_paid(env.attached_deposit)
    THEN [panicked |-> TRUE, steps |-> <<"assert_well_paid">>, promise |-> None]
    ELSE LET sender_id == env.predecessor_account_id
             price_data == get_price_data(m, recency, timestamp, None)
             remaining_gas == env.prepaid_gas - env.used_gas
         IN  IF ~(remaining_gas >= GAS_FOR_PROMISE)
             THEN [panicked |-> TRUE,
                   steps |-> <<"assert_well_paid", "get_price_data", "assert_gas">>,
                   promise |-> None]
             ELSE [panicked |-> FALSE,
                   steps |-> <<"assert_well_paid", "get_price_data", "assert_gas",
                               "oracle_on_call">>,
                   promise |-> Some(Promise(sender_id, price_data, msg, receiver_id,
                                            NO_DEPOSIT, remaining_gas - GAS_FOR_PROMISE))]

\* the body of oracle_call(receiver_id, asset_ids, msg) under env at block
\* time timestamp: whether it panicked, the steps it ran through and the
\* Promise it returns
oracle_call(m, recency, timestamp, env, receiver_id, asset_ids, msg) ==
    IF ~assert_well_paid(env.attached_deposit)
    THEN [panicked |-> TRUE, steps |-> <<"assert_well_paid">>, promise |-> None]
    ELSE LET sender_id == env.predecessor_account_id
             price_data == get_price_data(m, recency, timestamp, asset_ids)
             remaining_gas == env.prepaid_gas - env.used_gas
         IN  IF ~(remaining_gas >= GAS_FOR_PROMISE)
             THEN [panicked |-> TRUE,
                   steps |-> <<"assert_well_paid", "get_price_data", "assert_gas">>,
                   promise |-> None]
             ELSE [panicked |-> FALSE,
                   steps |-> <<"assert_well_paid", "get_price_data", "assert_gas",
                               "oracle_on_call">>,
                   promise |-> Some(Promise(sender_id, price_data, msg, receiver_id,
                                            NO_DEPOSIT, remaining_gas - GAS_FOR_PROMISE))]

----------------------------------------------------------------------------
(* OraclePriceReceiver for Contract::oracle_on_call *)

\* the entries of data.prices that carry a price, in their order, as
\* AssetPrice
RECURSIVE present_prices(_)
present_prices(entries) ==
    IF entries = <<>> THEN <<>>
    ELSE LET e == Head(entries)
         IN  (IF IsSome(e.price) THEN <<AssetPrice(e.asset_id, Unwrap(e.price))>>
              ELSE <<>>) \o present_prices(Tail(entries))

\* the variant of oracle_on_call that reports whatever it collected
oracle_on_call_always(m, predecessor, timestamp, sender_id, data, msg) ==
    report_prices(m, present_prices(data.prices), predecessor, timestamp)

\* the body of oracle_on_call(sender_id, data, msg) called by predecessor at
\* block time timestamp
oracle_on_call(m, predecessor, timestamp, sender_id, data, msg) ==
    LET prices == present_prices(data.prices)
    IN  IF Len(prices) > 0
        THEN report_prices(m, prices, predecessor, timestamp)
        ELSE [assets |-> m, panicked |-> FALSE, at |-> 0]

----------------------------------------------------------------------------
(* The calls *)

Call(op, ok, at, arg, ret) ==
    [op |-> op, ok |-> ok, at |-> at, arg |-> arg, ret |-> ret]

\* no call is being answered
Idle == Call("none", TRUE, 0, None, None)

\* Contract::new(recency_duration_sec, owner_id)
Init ==
    /\ assets = <<>>
    /\ recency_duration_sec \in RecencyChoices
    /\ owner_id = OwnerAccount
    /\ now = 0
    /\ last = Idle

\* the variant of ReportPrices that stores the reports under the owner's
\* account
ReportPrices_as_owner(caller, prices) ==
    LET run == report_prices(assets, prices, owner_id, now)
    IN  /\ last = Idle
        /\ assets' = Committed(assets, run)
        /\ last' = Call("report_prices", ~run.panicked, run.at,
                        Some(<<caller, prices>>), None)
        /\ UNCHANGED <<recency_duration_sec, owner_id, now>>

\* a call of report_prices(prices) by caller
ReportPrices(caller, prices) ==
    LET run == report_prices(assets, prices, caller, now)
    IN  /\ last = Idle
        /\ assets' = Committed(assets, run)
        /\ last' = Call("report_prices", ~run.panicked, run.at,
                        Some(<<caller, prices>>), None)
        /\ UNCHANGED <<recency_duration_sec, owner_id, now>>

\* the variant of GetPriceData that creates the requested assets it misses
GetPriceData_creating(asset_ids) ==
    LET ids == IF asset_ids = None THEN map_keys(assets) ELSE Unwrap(asset_ids)
        missing == {i \in 1..Len(ids) : internal_get_asset(assets, ids[i]) = None}
    IN  /\ last = Idle
        /\ last' = Call("get_price_data", TRUE, 0, asset_ids,
                        Some(get_price_data(assets, recency_duration_sec, now, asset_ids)))
        /\ assets' = IF missing = {} THEN assets
                      ELSE internal_set_asset(assets, ids[SetMin(missing)], AssetNew)
        /\ UNCHANGED <<recency_duration_sec, owner_id, now>>

\* a call of get_price_data(asset_ids)
GetPriceData(asset_ids) ==
    /\ last = Idle
    /\ last' = Call("get_price_data", TRUE, 0, asset_ids,
                    Some(get_price_data(assets, recency_duration_sec, now, asset_ids)))
    /\ UNCHANGED <<assets, recency_duration_sec, owner_id, now>>

\* the call's outcome reaches its caller
Return ==
    /\ last # Idle
    /\ last' = Idle
    /\ UNCHANGED <<assets, recency_duration_sec, owner_id, now>>

\* the next block
Tick ==
    /\ last = Idle
    /\ now < MaxTime
    /\ now' = now + 1
    /\ UNCHANGED <<assets, recency_duration_sec, owner_id, last>>

\* an EMA state for (asset_id, window) comes to exist; it holds no value
\* until the asset's next report
TrackEma(asset_id, window) ==
    LET asset == internal_get_asset(assets, asset_id)
    IN  /\ last = Idle
        /\ IsSome(asset)
        /\ \A e \in Unwrap(asset).emas : e.window # window
        /\ assets' = internal_set_asset(assets, asset_id,
                        [Unwrap(asset) EXCEPT
                            !.emas = @ \cup {EmaState(window, None, 0)}])
        /\ UNCHANGED <<recency_duration_sec, owner_id, now, last>>

\* a call of oracle_call(receiver_id, asset_ids, msg) under env
OracleCall(env, receiver_id, asset_ids, msg) ==
    LET run == oracle_call(assets, recency_duration_sec, now, env,
                           receiver_id, asset_ids, msg)
    IN  /\ last = Idle
        /\ last' = Call("oracle_call", ~run.panicked, 0,
                        Some([env |-> env, receiver_id |-> receiver_id,
                              asset_ids |-> asset_ids, msg |-> msg]),
                        Some([steps |-> run.steps, promise |-> run.promise]))
        /\ UNCHANGED <<assets, recency_duration_sec, owner_id, now>>

\* a call of oracle_on_call(sender_id, data, msg) by caller
OracleOnCall(caller, sender_id, data, msg) ==
    LET run == oracle_on_call(assets, caller, now, sender_id, data, msg)
    IN  /\ last = Idle
        /\ assets' = Committed(assets, run)
        /\ last' = Call("oracle_on_call", ~run.panicked, run.at,
                        Some([caller |-> caller, sender_id |-> sender_id,
                              data |-> data, msg |-> msg]),
                        None)
        /\ UNCHANGED <<recency_duration_sec, owner_id, now>>

\* the runtime executes the receipt an oracle_call returned whose receiver
\* is this contract: a call of oracle_on_call in the next block, the
\* contract being the predecessor of the calls it makes
Deliver ==
    /\ last.op = "oracle_call"
    /\ last.ok
    /\ now < MaxTime
    /\ LET p == Unwrap(Unwrap(last.ret).promise)
           run == oracle_on_call(assets, OracleAccount, now + 1,
                                 p.sender_id, p.data, p.msg)
       IN  /\ p.receiver_id = OracleAccount
           /\ assets' = Committed(assets, run)
           /\ last' = Call("oracle_on_call", ~run.panicked, run.at,
                           Some([caller |-> OracleAccount,
                                 sender_id |-> p.sender_id,
                                 data |-> p.data, msg |-> p.msg]),
                           None)
    /\ now' = now + 1
    /\ UNCHANGED <<recency_duration_sec, owner_id>>

\* Asset::add_report(report) on the stored asset asset_id, the report's
\* timestamp being any
AddReport(asset_id, report) ==
    LET asset == internal_get_asset(assets, asset_id)
    IN  /\ last = Idle
        /\ IsSome(asset)
        /\ assets' = internal_set_asset(assets, asset_id,
                                        add_report(Unwrap(asset), report))
        /\ last' = Call("add_report", TRUE, 0, Some(report), None)
        /\ UNCHANGED <<recency_duration_sec, owner_id, now>>

Next ==
    \/ \E caller \in Oracles, prices \in Batches(ReportIds, PriceInputs, MaxBatch) :
           ReportPrices(caller, prices)
    \/ \E asset_ids \in QueryArgs(QueryIds, MaxIds) : GetPriceData(asset_ids)
    \/ Return
    \/ Tick

Spec == Init /\ [][Next]_vars

(* The contract with EMA windows in use, over one asset *)

EmaBatch == 2       \* batch length in NextEma

EmaOracles == {"o1", "o2"}
EmaPrices == ValidPrices \cup {Price(0, 0)}

NextEma ==
    \/ \E caller \in EmaOracles, prices \in Batches({IdA}, EmaPrices, EmaBatch) :
           ReportPrices(caller, prices)
    \/ \E asset_ids \in QueryArgs(QueryIds, MaxIds) : GetPriceData(asset_ids)
    \/ TrackEma(IdA, 1)
    \/ Return
    \/ Tick

SpecEma == Init /\ [][NextEma]_vars

(* The contract over several asset ids, a variant id among them, in one block *)

IdsOracles == {"o1", "o2"}
IdsPrices == {Price(1, 0), Price(0, 0)}

NextIds ==
    \/ \E caller \in IdsOracles, prices \in Batches({IdA, IdB, IdA1}, IdsPrices, MaxBatch) :
           ReportPrices(caller, prices)
    \/ \E asset_ids \in QueryArgs(QueryIds, 1) : GetPriceData(asset_ids)
    \/ Return

SpecIds == Init /\ [][NextIds]_vars

(* The contract pushing snapshots to receivers and receiving them *)

CallAccounts == {"o1", OracleAccount}
Receivers == {"receiver", OracleAccount}
Messages == {"m1", "m2"}
DepositChoices == {0, 1, 2}
PrepaidGasChoices == {GAS_FOR_PROMISE, GAS_FOR_PROMISE + 2}
UsedGasChoices == {0, 3}

Envs(accounts) ==
    {Env(a, d, p, u) : a \in accounts, d \in DepositChoices,
                       p \in PrepaidGasChoices, u \in UsedGasChoices}

\* the PriceData a caller of oracle_on_call may pass
DataPrices == {None, Some(Price(1, 0)), Some(Price(3, 0)), Some(Price(0, 0))}
DataEntries == {AssetOptionalPrice(IdA, p) : p \in DataPrices}
PriceDatas ==
    {[timestamp |-> t, recency_duration_sec |-> 0, prices |-> l] :
        t \in {0}, l \in SeqsUpTo(DataEntries, 0, MaxData)}

NextCall ==
    \/ \E caller \in {"o1"}, prices \in Batches({IdA}, ValidPrices, 1) :
           ReportPrices(caller, prices)
    \/ \E env \in Envs(CallAccounts), receiver_id \in Receivers,
          asset_ids \in QueryArgs({IdA, IdB}, 1), msg \in Messages :
           OracleCall(env, receiver_id, asset_ids, msg)
    \/ Deliver
    \/ Return
    \/ Tick

SpecCall == Init /\ [][NextCall]_vars

(* The contract receiving snapshots *)

NextReceive ==
    \/ \E caller \in CallAccounts, prices \in Batches({IdA}, ValidPrices, 1) :
           ReportPrices(caller, prices)
    \/ \E caller \in CallAccounts, data \in PriceDatas :
           OracleOnCall(caller, "o1", data, "m1")
    \/ Return
    \/ Tick

SpecReceive == Init /\ [][NextReceive]_vars

(* One asset taking reports in any order of their timestamps.  The contract *)
(* stamps a report with the block timestamp, which never goes back; a       *)
(* report older than an EMA state's last_update reaches the asset only      *)
(* through Asset::add_report itself.                                        *)

FnOracles == {"o1", "o2"}

NextFn ==
    \/ \E prices \in Batches({IdA}, {Price(1, 0)}, 1) : ReportPrices("o1", prices)
    \/ \E o \in FnOracles, t \in 0..MaxTime, p \in ValidPrices :
           AddReport(IdA, Report(o, t, p))
    \/ TrackEma(IdA, 1)
    \/ Return

SpecEmaFn == Init /\ [][NextFn]_vars

(* One reporter feeding one asset whose EMA windows are in use *)

ConvWindows == {1, 2}

NextConv ==
    \/ \E prices \in Batches({IdA}, ValidPrices, 1) : ReportPrices("o1", prices)
    \/ \E w \in ConvWindows : TrackEma(IdA, w)
    \/ Return
    \/ Tick

SpecConv == Init /\ [][NextConv]_vars

(* Two reporters and two assets, one of them with an EMA window in use, in *)
(* one block                                                              *)

LedgerOracles == {"o1", "o2"}
LedgerIds == {IdA, IdB}
LedgerPrices == {Price(1, 0), Price(3, 0)}

NextLedger ==
    \/ \E caller \in LedgerOracles, prices \in Batches(LedgerIds, LedgerPrices, MaxBatch) :
           ReportPrices(caller, prices)
    \/ TrackEma(IdA, 1)
    \/ Return

SpecLedger == Init /\ [][NextLedger]_vars

----------------------------------------------------------------------------
(* Claims *)

IsQuery == last.op = "get_price_data"
QueryIdsOf(c) == IF c.arg = None THEN map_keys(assets) ELSE Unwrap(c.arg)
Snapshot == Unwrap(last.ret)

IsReport(c) == c.op = "report_prices"
CallerOf(c) == Unwrap(c.arg)[1]
BatchOf(c) == Unwrap(c.arg)[2]

HasInvalid(prices) == \E i \in 1..Len(prices) : ~price_is_valid(prices[i].price)

IsVariant(id) == IsSome(split_once(id))
BaseOf(id) == Unwrap(split_once(id))[1]
WindowOf(id) == parse_window(Unwrap(split_once(id))[2])

\* the asset an id resolves to is stored
Stored(id) == map_has(assets, id)

\* Recency Filter: a report is valid at `now` iff its age is within recency
Fresh(r) == now - r.timestamp <= recency_duration_sec
FreshReports(asset) == {r \in asset.reports : Fresh(r)}

\* C2: a report_prices call whose batch holds an invalid price, at whatever
\* position, is rejected and leaves the assets, their reports and EMA states,
\* recency_duration_sec and owner_id exactly as they were before the call.
C2_BatchAllOrNothing ==
    [][(last = Idle /\ IsReport(last') /\ HasInvalid(BatchOf(last')))
          => /\ ~last'.ok
             /\ assets' = assets
             /\ recency_duration_sec' = recency_duration_sec
             /\ owner_id' = owner_id]_vars

\* a rejected batch whose second entry is the invalid one, after a valid
\* first entry for an asset the caller holds no report of and whose EMA
\* state that entry's report would have moved
C2_Witness ==
    /\ IsReport(last)
    /\ ~last.ok
    /\ last.at = 2
    /\ LET first == BatchOf(last)[1]
           asset == internal_get_asset(assets, first.asset_id)
       IN  /\ price_is_valid(first.price)
           /\ IsSome(asset)
           /\ \A r \in Unwrap(asset).reports : r.oracle_id # CallerOf(last)
           /\ \E e \in Unwrap(asset).emas :
                 /\ IsSome(e.price)
                 /\ ema_update(e, Report(CallerOf(last), now, first.price)).price # e.price

C4_StaleReportsExcluded ==
    IsQuery =>
        \A i \in 1..Len(Snapshot.prices) :
            LET e == Snapshot.prices[i]
                asset == internal_get_asset(assets, e.asset_id)
            IN  (~IsVariant(e.asset_id) /\ IsSome(asset))
                    => (IsSome(e.price) <=> FreshReports(Unwrap(asset)) # {})

\* C5: every asset holds at most one report per reporter; after an accepted
\* report_prices call the caller's report of each asset of the batch is the
\* one of this call (its block timestamp, the price of the call's last entry
\* for the asset), and the number of reports of an asset the caller had
\* already reported to does not grow.
C5_OneReportPerReporter ==
    [][/\ \A k \in 1..Len(assets') : \A o \in Oracles :
              Cardinality({r \in assets'[k].value.reports : r.oracle_id = o}) <= 1
       /\ (last = Idle /\ IsReport(last') /\ last'.ok) =>
            LET caller == CallerOf(last')
                prices == BatchOf(last')
            IN  \A i \in 1..Len(prices) :
                  LET id == prices[i].asset_id
                      before == internal_get_asset(assets, id)
                      after == Unwrap(internal_get_asset(assets', id))
                      final == CHOOSE j \in 1..Len(prices) :
                                  /\ prices[j].asset_id = id
                                  /\ \A k \in (j + 1)..Len(prices) : prices[k].asset_id # id
                  IN  /\ {r \in after.reports : r.oracle_id = caller}
                          = {Report(caller, now, prices[final].price)}
                      /\ (IsSome(before)
                            /\ \E r \in Unwrap(before).reports : r.oracle_id = caller)
                          => Cardinality(after.reports)
                                = Cardinality(Unwrap(before).reports)]_vars

\* one batch reports the same asset twice with different prices, at a later
\* block than another reporter's report: the caller's single report is the
\* second entry's
C5_Witness ==
    /\ IsReport(last)
    /\ last.ok
    /\ Len(BatchOf(last)) = 2
    /\ BatchOf(last)[1].asset_id = IdA
    /\ BatchOf(last)[2].asset_id = IdA
    /\ BatchOf(last)[1].price # BatchOf(last)[2].price
    /\ LET asset == Unwrap(internal_get_asset(assets, IdA))
       IN  /\ Cardinality(asset.reports) = 2
           /\ Report(CallerOf(last), now, BatchOf(last)[2].price) \in asset.reports
           /\ \E r \in asset.reports : r.timestamp < now

\* the reference median of a non-empty set of reports: the element at index
\* n/2 (from 0) of the sorted prices for odd n, the truncated mean of the two
\* central elements for even n
ReferenceMedian(rs) ==
    LET s == SortedPrices(rs)
        n == Len(s)
    IN  IF n % 2 = 1 THEN s[(n \div 2) + 1]
        ELSE LET lo == s[n \div 2]
                 hi == s[(n \div 2) + 1]
                 d == Max2(lo.decimals, hi.decimals)
             IN  Price((Normalized(lo, d) + Normalized(hi, d)) \div 2, d)

\* C6: for every stored asset with a non-empty set of fresh reports, the
\* price get_price_data returns for it is the reference median of those
\* reports.
C6_MedianOfFreshReports ==
    IsQuery =>
        \A i \in 1..Len(Snapshot.prices) :
            LET e == Snapshot.prices[i]
                asset == internal_get_asset(assets, e.asset_id)
            IN  (~IsVariant(e.asset_id) /\ IsSome(asset)
                    /\ FreshReports(Unwrap(asset)) # {})
                    => e.price = Some(ReferenceMedian(FreshReports(Unwrap(asset))))

\* C7: get_price_data for an asset id that has never been reported returns
\* an entry for it with price none, the call is not rejected and no default
\* price stands in; an asset id is an id that is not of the variant form.
C7_UnreportedAssetIsNone ==
    (IsQuery /\ IsSome(last.arg)) =>
        LET ids == Unwrap(last.arg)
        IN  \A i \in 1..Len(ids) :
              (~IsVariant(ids[i]) /\ ~Stored(ids[i]))
                  => /\ last.ok
                     /\ i <= Len(Snapshot.prices)
                     /\ Snapshot.prices[i] = AssetOptionalPrice(ids[i], None)

\* a query of the never-reported id b while a is stored and has a price
C7_Witness ==
    /\ IsQuery
    /\ last.ok
    /\ last.arg = Some(<<IdA, IdB>>)
    /\ ~Stored(IdB)
    /\ IsSome(Snapshot.prices[1].price)
    /\ Snapshot.prices[2] = AssetOptionalPrice(IdB, None)

\* C8: an entry for base#window whose pair (base, window) has no EMA value,
\* no report ever having reached it, has price none, also when base holds
\* fresh reports.
C8_UnreportedWindowIsNone ==
    IsQuery =>
        \A i \in 1..Len(Snapshot.prices) :
            LET e == Snapshot.prices[i]
            IN  (IsVariant(e.asset_id)
                    /\ ema_price(assets, BaseOf(e.asset_id), WindowOf(e.asset_id)) = None)
                    => e.price = None

\* C10: a get_price_data call leaves assets (reports and EMA states),
\* recency_duration_sec and owner_id unchanged, and a second call with the
\* same ids at the same timestamp returns the snapshot the first returned.
C10_QueryIsPure ==
    [][(last = Idle /\ last'.op = "get_price_data")
          => /\ assets' = assets
             /\ recency_duration_sec' = recency_duration_sec
             /\ owner_id' = owner_id
             /\ now' = now
             /\ last'.ret = Some(get_price_data(assets', recency_duration_sec', now',
                                                 last'.arg))]_vars

\* a query that names an asset the ledger does not hold, next to the variant
\* id of one it holds with an EMA value, has been answered
C10_Witness ==
    /\ IsQuery
    /\ last.arg = Some(<<IdB, IdA1>>)
    /\ Stored(IdA)
    /\ ~Stored(IdB)
    /\ ~Stored(IdA1)
    /\ IsSome(ema_price(assets, IdA, Some(1)))

\* C9: without an id list, the entries of get_price_data are the stored
\* assets in the ledger's order, and none of them has a variant id
\* base#window.
C9_DefaultSetHasNoVariants ==
    (IsQuery /\ last.arg = None) =>
        /\ [i \in 1..Len(Snapshot.prices) |-> Snapshot.prices[i].asset_id] = map_keys(assets)
        /\ \A i \in 1..Len(Snapshot.prices) : ~IsVariant(Snapshot.prices[i].asset_id)

\* C1: an entry for base#window whose pair (base, window) holds an EMA value
\* that differs from base's median carries the EMA value, also when base is
\* requested in the same call.
C1_VariantIsEma ==
    IsQuery =>
        \A i \in 1..Len(Snapshot.prices) :
            LET e == Snapshot.prices[i]
            IN  IsVariant(e.asset_id) =>
                  LET ema == ema_price(assets, BaseOf(e.asset_id), WindowOf(e.asset_id))
                      median == asset_median(internal_get_asset(assets, BaseOf(e.asset_id)))
                  IN  (IsSome(ema) /\ ema # median) => e.price = ema

IsOracleCall(c) == c.op = "oracle_call"
ArgsOf(c) == Unwrap(c.arg)
RemainingGas(c) == ArgsOf(c).env.prepaid_gas - ArgsOf(c).env.used_gas
StepsOf(c) == Unwrap(c.ret).steps
PromiseOf(c) == Unwrap(c.ret).promise
Ran(c, step) == \E k \in 1..Len(StepsOf(c)) : StepsOf(c)[k] = step

\* C11: an oracle_call whose attached deposit is not the required one yocto
\* is rejected having neither read the ledger nor built a snapshot, returns
\* no Promise (no outbound message) and leaves assets, recency_duration_sec
\* and owner_id unchanged.
C11_UnpaidCallRejected ==
    [][(last = Idle /\ IsOracleCall(last')
            /\ ArgsOf(last').env.attached_deposit # 1)
          => /\ ~last'.ok
             /\ ~Ran(last', "get_price_data")
             /\ ~Ran(last', "oracle_on_call")
             /\ PromiseOf(last') = None
             /\ assets' = assets
             /\ recency_duration_sec' = recency_duration_sec
             /\ owner_id' = owner_id]_vars

\* a call with no deposit and gas to spare, for a stored asset with a price,
\* has been rejected
C11_Witness ==
    /\ IsOracleCall(last)
    /\ ~last.ok
    /\ ArgsOf(last).env.attached_deposit = 0
    /\ RemainingGas(last) > GAS_FOR_PROMISE
    /\ ArgsOf(last).asset_ids = Some(<<IdA>>)
    /\ IsSome(asset_median(internal_get_asset(assets, IdA)))

\* C12: an oracle_call whose remaining gas, prepaid minus used, is below
\* GAS_FOR_PROMISE is rejected before the outbound call is constructed and
\* leaves the state unchanged; every Promise an oracle_call returns was made
\* with remaining gas of at least GAS_FOR_PROMISE and carries
\* remaining - GAS_FOR_PROMISE, which is not negative.
C12_LowGasCallRejected ==
    [][(last = Idle /\ IsOracleCall(last'))
          => /\ RemainingGas(last') < GAS_FOR_PROMISE
                => /\ ~last'.ok
                   /\ ~Ran(last', "oracle_on_call")
                   /\ PromiseOf(last') = None
                   /\ assets' = assets
                   /\ recency_duration_sec' = recency_duration_sec
                   /\ owner_id' = owner_id
             /\ IsSome(PromiseOf(last'))
                => /\ RemainingGas(last') >= GAS_FOR_PROMISE
                   /\ Unwrap(PromiseOf(last')).gas
                        = RemainingGas(last') - GAS_FOR_PROMISE
                   /\ Unwrap(PromiseOf(last')).gas >= 0]_vars

\* a paid call left with one Tgas less than GAS_FOR_PROMISE has been
\* rejected at the gas assertion, after the snapshot was built
C12_Witness ==
    /\ IsOracleCall(last)
    /\ ~last.ok
    /\ ArgsOf(last).env.attached_deposit = 1
    /\ RemainingGas(last) = GAS_FOR_PROMISE - 1
    /\ Ran(last, "get_price_data")
    /\ Stored(IdA)

\* C19: an accepted oracle_call returns one Promise: a call of oracle_on_call
\* on receiver_id carrying the caller as sender_id, the msg as given and the
\* snapshot get_price_data(asset_ids) returns in the same state at the same
\* block timestamp; the call changes no asset, report or EMA state, nor
\* recency_duration_sec or owner_id, so nothing about the delivery is kept.
C19_AcceptedCallSendsSnapshot ==
    [][(last = Idle /\ IsOracleCall(last') /\ last'.ok)
          => /\ IsSome(PromiseOf(last'))
             /\ LET p == Unwrap(PromiseOf(last'))
                    a == ArgsOf(last')
                IN  /\ p.receiver_id = a.receiver_id
                    /\ p.method = "oracle_on_call"
                    /\ p.sender_id = a.env.predecessor_account_id
                    /\ p.msg = a.msg
                    /\ p.data = get_price_data(assets, recency_duration_sec, now,
                                               a.asset_ids)
                    /\ p.data.timestamp = now
             /\ assets' = assets
             /\ recency_duration_sec' = recency_duration_sec
             /\ owner_id' = owner_id
             /\ now' = now]_vars

\* an accepted call after the first block, by an account that is not the
\* receiver, for one stored asset with a price while another is stored
\* or asked for
C19_Witness ==
    /\ IsOracleCall(last)
    /\ last.ok
    /\ now > 0
    /\ ArgsOf(last).env.predecessor_account_id # ArgsOf(last).receiver_id
    /\ ArgsOf(last).msg = "m2"
    /\ ArgsOf(last).asset_ids = Some(<<IdA>>)
    /\ Len(Unwrap(PromiseOf(last)).data.prices) = 1
    /\ IsSome(Unwrap(PromiseOf(last)).data.prices[1].price)

IsOnCall(c) == c.op = "oracle_on_call"

\* the entries of a PriceData's prices that carry a price, as a batch
PresentEntries(entries) ==
    LET Has(e) == IsSome(e.price)
        kept == SelectSeq(entries, Has)
    IN  [i \in 1..Len(kept) |-> AssetPrice(kept[i].asset_id, Unwrap(kept[i].price))]

\* C15: an oracle_on_call whose predecessor is not the oracle account is
\* rejected and changes no asset, report or EMA state.
C15_OnlyOracleMayDeliver ==
    [][(last = Idle /\ IsOnCall(last') /\ ArgsOf(last').caller # OracleAccount)
          => /\ ~last'.ok
             /\ assets' = assets]_vars

IsAddReport(c) == c.op = "add_report"

\* the EMA states of the stored asset id in the map m
EmasOf(m, id) ==
    IF IsSome(internal_get_asset(m, id))
    THEN Unwrap(internal_get_asset(m, id)).emas
    ELSE {}

\* C13: the last_update of an (asset, window) EMA state never decreases:
\* after a report is added it is the greater of what it was and the report's
\* timestamp, also when the report is older than the state's last_update.
C13_EmaClockMonotone ==
    [][/\ \A k \in 1..Len(assets) :
            \A e \in assets[k].value.emas :
               \E f \in EmasOf(assets', assets[k].key) :
                  /\ f.window = e.window
                  /\ f.last_update >= e.last_update
       /\ (last = Idle /\ IsAddReport(last'))
          => \A e \in EmasOf(assets, IdA) :
                \E f \in EmasOf(assets', IdA) :
                   /\ f.window = e.window
                   /\ f.last_update
                        = Max2(e.last_update, Unwrap(last'.arg).timestamp)]_vars

\* a report older than the EMA state's last_update has been added, with a
\* price that differs from the smoothed value
C13_Witness ==
    /\ IsAddReport(last)
    /\ \E e \in EmasOf(assets, IdA) :
          /\ IsSome(e.price)
          /\ Unwrap(last.arg).timestamp < e.last_update
          /\ Unwrap(last.arg).price # Unwrap(e.price)

\* the EMA state of window w among es
EmaOf(es, w) == CHOOSE f \in es : f.window = w

\* a step in which one report of price P reaches the EMA states of asset a
\* that hold a value, a positive time after their last update
Feeds(e, P) ==
    /\ last = Idle
    /\ IsReport(last')
    /\ last'.ok
    /\ BatchOf(last') = <<AssetPrice(IdA, P)>>
    /\ e \in EmasOf(assets, IdA)
    /\ IsSome(e.price)
    /\ now > e.last_update

\* the mantissas of the smoothed value before and after the step and of
\* the price P, at the precision of the value after
OldAt(e, P) == Normalized(Unwrap(e.price), Max2(Unwrap(e.price).decimals, P.decimals))
NewAt(e) == Unwrap(EmaOf(EmasOf(assets', IdA), e.window).price).multiplier
GoalAt(e, P) == Normalized(P, Max2(Unwrap(e.price).decimals, P.decimals))

Abs(x) == IF x >= 0 THEN x ELSE 0 - x

\* the value moves toward P and not past it
TowardGoal(e, P) ==
    /\ Abs(GoalAt(e, P) - NewAt(e)) <= Abs(GoalAt(e, P) - OldAt(e, P))
    /\ (OldAt(e, P) <= GoalAt(e, P)) => (OldAt(e, P) <= NewAt(e) /\ NewAt(e) <= GoalAt(e, P))
    /\ (OldAt(e, P) >= GoalAt(e, P)) => (OldAt(e, P) >= NewAt(e) /\ NewAt(e) >= GoalAt(e, P))

\* C14 as stated: submitting the constant price P at a fixed positive
\* interval moves the smoothed value monotonically toward P, never past it,
\* and arbitrarily close to it.  The update is a function of the value, P,
\* the interval and the window alone: a submission that leaves a value other
\* than P in place is repeated by every later one, so coming arbitrarily
\* close requires every submission to a value other than P to bring it
\* strictly closer.
C14_ConvergesToConstant ==
    [][\A P \in ValidPrices : \A e \in EmasOf(assets, IdA) :
          Feeds(e, P)
             => /\ TowardGoal(e, P)
                /\ OldAt(e, P) # GoalAt(e, P)
                   => Abs(GoalAt(e, P) - NewAt(e)) < Abs(GoalAt(e, P) - OldAt(e, P))]_vars

\* C14 as amended: the value moves monotonically toward P and never past
\* it; a submission brings it strictly closer when it is above P, or below P
\* by at least 1 + window/interval units of its precision; below P and
\* nearer than that, truncation leaves it where it is.
C14_MonotoneTowardConstant ==
    [][\A P \in ValidPrices : \A e \in EmasOf(assets, IdA) :
          Feeds(e, P)
             => LET dt == now - e.last_update
                    gap == GoalAt(e, P) - OldAt(e, P)
                IN  /\ TowardGoal(e, P)
                    /\ gap < 0 => NewAt(e) < OldAt(e, P)
                    /\ (gap > 0 /\ gap * dt >= dt + e.window) => NewAt(e) > OldAt(e, P)
                    /\ (gap > 0 /\ gap * dt < dt + e.window) => NewAt(e) = OldAt(e, P)]_vars

\* after the price 3 was reported a positive time after the first report,
\* the EMA of window 1 stands at 2, between the prices reported, and the EMA
\* of window 2 at 1, where it started
C14_Witness ==
    /\ IsReport(last)
    /\ last.ok
    /\ BatchOf(last) = <<AssetPrice(IdA, Price(3, 0))>>
    /\ now > 0
    /\ EmasOf(assets, IdA)
         = {EmaState(1, Some(Price(2, 0)), now), EmaState(2, Some(Price(1, 0)), now)}

\* a report_prices call has just been accepted
Accepted == last = Idle /\ IsReport(last') /\ last'.ok

\* the reports of the stored asset id in the map m
ReportsOf(m, id) ==
    IF IsSome(internal_get_asset(m, id))
    THEN Unwrap(internal_get_asset(m, id)).reports
    ELSE {}

\* the asset ids a batch names
Named(prices) == {prices[i].asset_id : i \in 1..Len(prices)}

\* C16: every report a report_prices call stores carries the caller as its
\* reporter and the call's block timestamp, for every entry of the batch;
\* the reports other callers made for the same asset stay next to it.
C16_ReportsCarryCallerAndTime ==
    [][Accepted =>
         LET caller == CallerOf(last')
             prices == BatchOf(last')
         IN  /\ \A i \in 1..Len(prices) :
                   \E r \in ReportsOf(assets', prices[i].asset_id) :
                      /\ r.oracle_id = caller
                      /\ r.timestamp = now
                      /\ \E j \in 1..Len(prices) :
                            /\ prices[j].asset_id = prices[i].asset_id
                            /\ prices[j].price = r.price
             /\ \A k \in 1..Len(assets') :
                   \A r \in assets'[k].value.reports :
                      \/ r.oracle_id = caller /\ r.timestamp = now
                      \/ r \in ReportsOf(assets, assets'[k].key)
             /\ \A k \in 1..Len(assets) :
                   \A r \in assets[k].value.reports :
                      r.oracle_id # caller => r \in ReportsOf(assets', assets[k].key)]_vars

\* o2's report of this block is stored next to the report o1 made for the
\* same asset in an earlier block, at another price
C16_Witness ==
    /\ IsReport(last)
    /\ last.ok
    /\ CallerOf(last) = "o2"
    /\ now > 0
    /\ \E p \in ValidPrices, q \in ValidPrices, t \in 0..(now - 1) :
          /\ p # q
          /\ BatchOf(last) = <<AssetPrice(IdA, q)>>
          /\ ReportsOf(assets, IdA) = {Report("o1", t, p), Report("o2", now, q)}

\* C17: report_prices creates an asset only for an id that is absent, after
\* the assets there were; for an asset that exists it changes the caller's
\* own report and the values of the asset's EMA states only, leaving the
\* reports of other reporters and the tracked windows as they were; an asset
\* the batch does not name is unchanged.
C17_LazyCreationAndFrame ==
    [][Accepted =>
         LET caller == CallerOf(last')
             prices == BatchOf(last')
             created == {id \in Named(prices) : ~map_has(assets, id)}
         IN  /\ Len(assets') = Len(assets) + Cardinality(created)
             /\ \A k \in 1..Len(assets) : assets'[k].key = assets[k].key
             /\ \A k \in (Len(assets) + 1)..Len(assets') :
                   /\ assets'[k].key \in created
                   /\ assets'[k].value.emas = {}
                   /\ \A r \in assets'[k].value.reports : r.oracle_id = caller
             /\ \A k \in 1..Len(assets) :
                   IF assets[k].key \in Named(prices)
                   THEN /\ {r \in assets'[k].value.reports : r.oracle_id # caller}
                             = {r \in assets[k].value.reports : r.oracle_id # caller}
                        /\ {e.window : e \in assets'[k].value.emas}
                             = {e.window : e \in assets[k].value.emas}
                   ELSE assets'[k] = assets[k]]_vars

\* o2 has reported the asset a alone, which exists with o1's report and an
\* EMA value, while the asset b holds reports of o1 and o2
C17_Witness ==
    /\ IsReport(last)
    /\ last.ok
    /\ CallerOf(last) = "o2"
    /\ BatchOf(last) = <<AssetPrice(IdA, Price(3, 0))>>
    /\ map_keys(assets) = <<IdB, IdA>>
    /\ ReportsOf(assets, IdA) = {Report("o1", 0, Price(1, 0)), Report("o2", 0, Price(3, 0))}
    /\ ReportsOf(assets, IdB) = {Report("o1", 0, Price(3, 0)), Report("o2", 0, Price(1, 0))}
    /\ \E e \in EmasOf(assets, IdA) : IsSome(e.price)

\* the entries of a batch reported one call at a time, in list order
RECURSIVE OneAtATime(_, _, _, _)
OneAtATime(m, prices, caller, timestamp) ==
    IF prices = <<>> THEN m
    ELSE OneAtATime(report_prices(m, <<Head(prices)>>, caller, timestamp).assets,
                    Tail(prices), caller, timestamp)

\* C18: an accepted report_prices call leaves the assets as reporting its
\* entries one at a time in list order does; where the batch names an asset
\* more than once, the caller's report of it is the one of the last such
\* entry.
C18_EntriesAppliedInOrder ==
    [][Accepted =>
         LET caller == CallerOf(last')
             prices == BatchOf(last')
         IN  /\ assets' = OneAtATime(assets, prices, caller, now)
             /\ \A i \in 1..Len(prices) :
                   (\A j \in (i + 1)..Len(prices) : prices[j].asset_id # prices[i].asset_id)
                      => {r \in ReportsOf(assets', prices[i].asset_id) : r.oracle_id = caller}
                            = {[oracle_id |-> caller, timestamp |-> now,
                                price |-> prices[i].price]}]_vars

\* a batch naming a twice, at 1 and then at 3, in a later block than the
\* EMA state's first value: the caller's report is the second entry's, and
\* the EMA state took the first entry before the second
C18_Witness ==
    /\ IsReport(last)
    /\ last.ok
    /\ now > 0
    /\ BatchOf(last) = <<AssetPrice(IdA, Price(1, 0)), AssetPrice(IdA, Price(3, 0))>>
    /\ Report(CallerOf(last), now, Price(3, 0)) \in ReportsOf(assets, IdA)
    /\ EmasOf(assets, IdA) = {EmaState(1, Some(Price(2, 0)), now)}

=============================================================================
